---- MODULE Spec2Model ----
(***************************************************************************)
(* Model of the inference service's /predict request pipeline               *)
(* (src/src/inference-service/app/main.py): the request-id middleware, the  *)
(* API-key dependency, the request-body model, the predict handler, the     *)
(* InferenceError handler, the process-wide Metrics object and the audit    *)
(* log.  Every request is a small process whose position (pc) moves through *)
(* the stages in the order the framework runs them; the handlers of         *)
(* different requests interleave between stages, as coroutines of one event *)
(* loop do.                                                                 *)
(***************************************************************************)
EXTENDS Integers, Sequences, FiniteSets, TLC

(* ----------------------------- bounds ---------------------------------- *)

\* number of requests the model lets arrive (all of them may be in flight)
MaxRequests == 2
\* /metrics calls followed between two request steps
MaxScrapes == 2

(* ------------------------- configuration ------------------------------- *)

\* MAX_BATCH_SIZE and MAX_FEATURES are read from the environment; the model
\* runs the service configured with small limits.
MAX_BATCH_SIZE == 2
MAX_FEATURES == 1

\* the configured secret, when there is one
Secret == "secret"

\* values of the X-API-Key header: absent, the secret, something else
NoHeader == "<absent>"
HeaderValues == {NoHeader, Secret, "wrong"}

\* feature values after JSON decoding: a finite float and a non-finite one
FloatValues == {"1.0", "nan"}
isfinite(v) == v # "nan"

\* elapsed wall-clock time of one handler run, in milliseconds: one value in
\* every histogram bucket, on the inclusive bound where there is one
Latencies == {10, 50, 100, 500, 1000, 1001}

RequestIds == 1..MaxRequests

(* ------------------------------ inputs --------------------------------- *)

\* an instance all of whose n features are v
ConstInstance(n, v) == [j \in 1..n |-> v]

\* finite instances of every length up to one past the limit, and one
\* instance holding a non-finite value
Instances ==
    {ConstInstance(n, "1.0") : n \in 0..(MAX_FEATURES + 1)}
        \cup {ConstInstance(1, "nan")}

\* batches of every length up to one past the limit: unit vectors followed by
\* any instance of Instances (so a violation, when there is one, is found
\* after the scan has passed the instances before it)
Batches ==
    {<<>>} \cup
    {[i \in 1..n |-> IF i = n THEN inst ELSE ConstInstance(1, "1.0")] :
        n \in 1..(MAX_BATCH_SIZE + 1), inst \in Instances}

\* a JSON body: one that has the shape {instances: [[number]]}, or one that
\* does not (a missing field, a string among the numbers)
Bodies ==
    {[typed |-> TRUE, instances |-> b] : b \in Batches}
        \cup {[typed |-> FALSE, instances |-> <<>>]}

(* ------------------------------ state ---------------------------------- *)

VARIABLES
    API_KEY,            \* "" = authentication disabled
    ENABLE_AUDIT_LOG,   \* audit records are emitted
    loaded,             \* model_wrapper.loaded after startup
    LOG_LEVEL,          \* "INFO" unless the environment sets it
    metrics,            \* the process-wide Metrics object
    audit_log,          \* audit records emitted, by request_id
    req,                \* per request: position, input, exception, response
    scraped             \* the /metrics texts sent since the last request step

vars == <<API_KEY, ENABLE_AUDIT_LOG, loaded, LOG_LEVEL, metrics, audit_log, req,
          scraped>>

Buckets == {"le_10ms", "le_50ms", "le_100ms", "le_500ms", "le_1000ms", "le_inf"}

\* Metrics.__init__
Metrics_init ==
    [request_count |-> 0,
     request_latency_sum |-> 0,
     prediction_count |-> 0,
     error_count |-> 0,
     validation_error_count |-> 0,
     auth_error_count |-> 0,
     instances_processed |-> 0,
     latency_histogram |-> [b \in Buckets |-> 0]]

\* a message is the sequence of the parts it is formatted from; cause is the
\* text of the exception this one was raised while handling ("" when none)
NoException == [type |-> "None", error_code |-> "", message |-> <<>>,
                details |-> <<>>, cause |-> ""]
NoResponse == [status |-> 0, kind |-> "None", error_code |-> "", message |-> <<>>,
               details |-> <<>>, request_id |-> 0, predictions |-> <<>>,
               x_request_id |-> 0]
NoBody == [typed |-> FALSE, instances |-> <<>>]

\* no /metrics response since the last request step
NoScrape == <<>>

IdleRequest ==
    [pc |-> "idle", request_id |-> 0, api_key |-> NoHeader, body |-> NoBody,
     stages |-> <<>>, exc |-> NoException, response |-> NoResponse]

Init ==
    /\ API_KEY \in {"", Secret}
    /\ ENABLE_AUDIT_LOG \in BOOLEAN
    /\ loaded \in BOOLEAN
    /\ LOG_LEVEL = "INFO"
    /\ metrics = Metrics_init
    /\ audit_log = [r \in RequestIds |-> <<>>]
    /\ req = [r \in RequestIds |-> IdleRequest]
    /\ scraped = NoScrape

(* ---------------------------- exceptions ------------------------------- *)

\* InferenceError and its subclasses: the error_code each constructor sets
ModelNotLoadedError ==
    [type |-> "ModelNotLoadedError", error_code |-> "MODEL_NOT_LOADED",
     message |-> <<"Model not loaded">>, details |-> <<>>, cause |-> ""]

ValidationError(message, details) ==
    [type |-> "ValidationError", error_code |-> "VALIDATION_ERROR",
     message |-> message, details |-> details, cause |-> ""]

PredictionError(message, cause) ==
    [type |-> "PredictionError", error_code |-> "PREDICTION_ERROR",
     message |-> message, details |-> <<>>, cause |-> cause]

AuthenticationError(message) ==
    [type |-> "AuthenticationError", error_code |-> "AUTHENTICATION_ERROR",
     message |-> message, details |-> <<>>, cause |-> ""]

\* an exception that is no InferenceError, raised with the text given
UnexpectedException(text) ==
    [type |-> "Exception", error_code |-> "", message |-> <<text>>,
     details |-> <<>>, cause |-> text]

\* an exception was raised (e is not the no-exception value)
raised(e) == e.type # "None"

(* ------------------------------ Metrics -------------------------------- *)

\* the bucket record_request picks for a latency (in ms)
bucket_of(latency_ms) ==
    IF latency_ms <= 10 THEN "le_10ms"
    ELSE IF latency_ms <= 50 THEN "le_50ms"
    ELSE IF latency_ms <= 100 THEN "le_100ms"
    ELSE IF latency_ms <= 500 THEN "le_500ms"
    ELSE IF latency_ms <= 1000 THEN "le_1000ms"
    ELSE "le_inf"

\* record_request with the final else of the bucket chain lost: a latency
\* above one second is counted in no bucket
record_request_no_overflow_bucket(m, latency_ms, success, instances) ==
    [m EXCEPT
        !.request_count = @ + 1,
        !.request_latency_sum = @ + latency_ms,
        !.instances_processed = @ + instances,
        !.latency_histogram = IF latency_ms <= 1000
                              THEN [@ EXCEPT ![bucket_of(latency_ms)] = @ + 1]
                              ELSE @,
        !.prediction_count = IF success THEN @ + 1 ELSE @,
        !.error_count = IF success THEN @ ELSE @ + 1]

\* record_request without its line for instances_processed
record_request_ignores_instances(m, latency_ms, success, instances) ==
    [m EXCEPT
        !.request_count = @ + 1,
        !.request_latency_sum = @ + latency_ms,
        !.latency_histogram[bucket_of(latency_ms)] = @ + 1,
        !.prediction_count = IF success THEN @ + 1 ELSE @,
        !.error_count = IF success THEN @ ELSE @ + 1]

\* Metrics.record_request(latency, success, instances)
record_request(m, latency_ms, success, instances) ==
    [m EXCEPT
        !.request_count = @ + 1,
        !.request_latency_sum = @ + latency_ms,
        !.instances_processed = @ + instances,
        !.latency_histogram[bucket_of(latency_ms)] = @ + 1,
        !.prediction_count = IF success THEN @ + 1 ELSE @,
        !.error_count = IF success THEN @ ELSE @ + 1]

\* Metrics.record_validation_error()
record_validation_error(m) ==
    [m EXCEPT !.validation_error_count = @ + 1, !.error_count = @ + 1]

\* Metrics.record_auth_error()
record_auth_error(m) ==
    [m EXCEPT !.auth_error_count = @ + 1, !.error_count = @ + 1]

\* the le labels of the rendered buckets
BucketLabels == {"0.01", "0.05", "0.1", "0.5", "1.0", "+Inf"}

\* request_latency_sum / max(request_count, 1) as the format :.6f prints it:
\* the average in microseconds, rounded to the nearest (the sum is kept in
\* milliseconds)
avg_latency(request_latency_sum, request_count) ==
    LET n == IF request_count > 1 THEN request_count ELSE 1
    IN (2 * 1000 * request_latency_sum + n) \div (2 * n)

\* the sample values Metrics.to_prometheus renders (the text is these values
\* in the order of the exposition; the le labels are the bounds in seconds)
to_prometheus(m) ==
    [inference_requests_total |-> m.request_count,
     inference_latency_seconds |->
        avg_latency(m.request_latency_sum, m.request_count),
     inference_predictions_total |-> m.prediction_count,
     inference_instances_total |-> m.instances_processed,
     inference_errors_total |-> m.error_count,
     inference_validation_errors_total |-> m.validation_error_count,
     inference_auth_errors_total |-> m.auth_error_count,
     inference_latency_bucket |->
        [le \in BucketLabels |->
            CASE le = "0.01" -> m.latency_histogram["le_10ms"]
              [] le = "0.05" -> m.latency_histogram["le_50ms"]
              [] le = "0.1" -> m.latency_histogram["le_100ms"]
              [] le = "0.5" -> m.latency_histogram["le_500ms"]
              [] le = "1.0" -> m.latency_histogram["le_1000ms"]
              [] le = "+Inf" -> m.latency_histogram["le_inf"]]]

(* ------------------------------ AuditLog ------------------------------- *)

\* AuditLog.log_prediction: a no-op when audit logging is disabled
log_prediction(log, enabled, request_id, instances_count, success, error) ==
    IF ~enabled THEN log
    ELSE [log EXCEPT ![request_id] =
            Append(@, [event |-> "prediction", request_id |-> request_id,
                       instances_count |-> instances_count,
                       success |-> success, error |-> error])]

\* AuditLog.log_auth_failure: a no-op when audit logging is disabled
log_auth_failure(log, enabled, request_id, reason) ==
    IF ~enabled THEN log
    ELSE [log EXCEPT ![request_id] =
            Append(@, [event |-> "auth_failure", request_id |-> request_id,
                       reason |-> reason])]

(* ------------------------------ Validator ------------------------------ *)

\* PredictionRequest.validate_instances: the message of the ValueError it
\* raises, "" when it returns v
validate_instances(v) ==
    IF Len(v) = 0 THEN "instances cannot be empty"
    ELSE IF Len(v) > MAX_BATCH_SIZE THEN "batch size exceeds maximum"
    ELSE ""

\* the check of one instance in ModelWrapper.validate_input's loop: the
\* ValidationError it raises, NoException when the instance passes
validate_instance(instance, i) ==
    IF Len(instance) > MAX_FEATURES
    THEN ValidationError(<<"too many features">>,
            [field |-> <<"instances", i>>, max_features |-> MAX_FEATURES,
             actual |-> Len(instance)])
    ELSE IF \E j \in 1..Len(instance) : ~isfinite(instance[j])
    THEN LET j == CHOOSE j \in 1..Len(instance) :
                    /\ ~isfinite(instance[j])
                    /\ \A k \in 1..(j - 1) : isfinite(instance[k])
         IN ValidationError(<<"feature is not finite (NaN or Inf)">>,
                [field |-> <<"instances", i, j>>, value |-> instance[j]])
    ELSE NoException

\* ModelWrapper.validate_input: the first ValidationError in scan order,
\* NoException when the batch is accepted
validate_input(features) ==
    IF Len(features) = 0
    THEN ValidationError(<<"Empty instances list">>,
            [field |-> "instances", reason |-> "list cannot be empty"])
    ELSE IF Len(features) > MAX_BATCH_SIZE
    THEN ValidationError(<<"Batch size exceeds maximum">>,
            [field |-> "instances", max_batch_size |-> MAX_BATCH_SIZE,
             actual |-> Len(features)])
    ELSE IF \E i \in 1..Len(features) : raised(validate_instance(features[i], i))
    THEN LET i == CHOOSE i \in 1..Len(features) :
                    /\ raised(validate_instance(features[i], i))
                    /\ \A k \in 1..(i - 1) : ~raised(validate_instance(features[k], k))
         IN validate_instance(features[i], i)
    ELSE NoException

(* --------------------------- PredictionBackend ------------------------- *)

\* str(e) of the ValueError torch.tensor raises on a ragged list
TensorValueError == "expected sequence of length n at dim 1"

\* torch.tensor(features) builds a rows x columns tensor only from rows of one
\* length; it raises ValueError on a ragged list
is_rectangular(features) ==
    \A i, k \in 1..Len(features) : Len(features[i]) = Len(features[k])

\* ModelWrapper.predict with validate_input called after the model has run
ModelWrapper_predict_validates_late(is_loaded, features) ==
    IF ~is_loaded
    THEN [stages |-> <<>>, exc |-> ModelNotLoadedError, results |-> <<>>]
    ELSE IF ~is_rectangular(features)
    THEN [stages |-> <<>>,
          exc |-> PredictionError(<<"Inference failed: ", TensorValueError>>,
                                  TensorValueError),
          results |-> <<>>]
    ELSE IF raised(validate_input(features))
    THEN [stages |-> <<"model", "validate_input">>,
          exc |-> validate_input(features), results |-> <<>>]
    ELSE [stages |-> <<"model", "validate_input">>, exc |-> NoException,
          results |-> [i \in 1..Len(features) |->
                          [row |-> i, prediction |-> 0]]]

\* ModelWrapper.predict: the stages it runs, the exception it raises
\* (NoException when it returns) and the results it returns, one for every
\* row of the tensor (padding and cutting the columns leaves the rows alone)
ModelWrapper_predict(is_loaded, features) ==
    IF ~is_loaded
    THEN [stages |-> <<>>, exc |-> ModelNotLoadedError, results |-> <<>>]
    ELSE IF raised(validate_input(features))
    THEN [stages |-> <<"validate_input">>, exc |-> validate_input(features),
          results |-> <<>>]
    ELSE IF ~is_rectangular(features)
    THEN [stages |-> <<"validate_input">>,
          exc |-> PredictionError(<<"Inference failed: ", TensorValueError>>,
                                  TensorValueError),
          results |-> <<>>]
    ELSE [stages |-> <<"validate_input", "model">>, exc |-> NoException,
          results |-> [i \in 1..Len(features) |->
                          [row |-> i, prediction |-> 0]]]

(* ----------------------------- ErrorTaxonomy --------------------------- *)

\* the subclasses of InferenceError, and an exception class that is none
InferenceErrorKinds ==
    {"ModelNotLoadedError", "ModelLoadError", "ValidationError",
     "PredictionError", "AuthenticationError", "RateLimitError"}
ExceptionKinds == InferenceErrorKinds \cup {"Exception"}

\* the error_code the constructor of each InferenceError subclass passes to
\* InferenceError.__init__; an exception that is none carries no error_code
error_code_of(kind) ==
    CASE kind = "ModelNotLoadedError" -> "MODEL_NOT_LOADED"
      [] kind = "ModelLoadError" -> "MODEL_LOAD_ERROR"
      [] kind = "ValidationError" -> "VALIDATION_ERROR"
      [] kind = "PredictionError" -> "PREDICTION_ERROR"
      [] kind = "AuthenticationError" -> "AUTHENTICATION_ERROR"
      [] kind = "RateLimitError" -> "RATE_LIMIT_ERROR"
      [] OTHER -> ""

\* a status_code_map without its entries for an unavailable model
status_code_map_without_503(error_code) ==
    CASE error_code = "VALIDATION_ERROR" -> 422
      [] error_code = "PREDICTION_ERROR" -> 500
      [] error_code = "AUTHENTICATION_ERROR" -> 401
      [] error_code = "RATE_LIMIT_ERROR" -> 429
      [] OTHER -> 500

\* status_code_map.get(exc.error_code, 500) of inference_error_handler
status_code_map(error_code) ==
    CASE error_code = "MODEL_NOT_LOADED" -> 503
      [] error_code = "MODEL_LOAD_ERROR" -> 503
      [] error_code = "VALIDATION_ERROR" -> 422
      [] error_code = "PREDICTION_ERROR" -> 500
      [] error_code = "AUTHENTICATION_ERROR" -> 401
      [] error_code = "RATE_LIMIT_ERROR" -> 429
      [] OTHER -> 500

\* the status an exception of the kind given leaves the service with:
\* inference_error_handler for an InferenceError, global_exception_handler
\* for any other
status_of_kind(kind) ==
    IF kind \in InferenceErrorKinds
    THEN status_code_map(error_code_of(kind))
    ELSE 500

\* the APIError payload of a JSONResponse
APIError(status, exc, request_id) ==
    [status |-> status, kind |-> "APIError", error_code |-> exc.error_code,
     message |-> exc.message, details |-> exc.details,
     request_id |-> request_id, predictions |-> <<>>, x_request_id |-> 0]

\* the framework's answer to a body the PredictionRequest model rejects:
\* 422 with a list of field errors, not an APIError
RequestValidationResponse(message) ==
    [status |-> 422, kind |-> "RequestValidationError", error_code |-> "",
     message |-> <<message>>, details |-> <<>>, request_id |-> 0,
     predictions |-> <<>>, x_request_id |-> 0]

\* the PredictionResponse payload
PredictionResponse(request_id, predictions) ==
    [status |-> 200, kind |-> "PredictionResponse", error_code |-> "",
     message |-> "", details |-> <<>>, request_id |-> request_id,
     predictions |-> predictions, x_request_id |-> 0]

(* ------------------------------ handlers ------------------------------- *)

\* a request arrives with its headers and add_request_id gives it its id
\* (ids are handed out in arrival order)
Arrive(r) ==
    /\ req[r].pc = "idle"
    /\ \A q \in 1..(r - 1) : req[q].pc # "idle"
    /\ \E h \in HeaderValues :
         req' = [req EXCEPT ![r] = [@ EXCEPT !.pc = "gate", !.request_id = r,
                                              !.api_key = h]]
    /\ scraped' = NoScrape
    /\ UNCHANGED <<API_KEY, ENABLE_AUDIT_LOG, loaded, LOG_LEVEL, metrics, audit_log>>

\* add_request_id, up to call_next, when requests are served one after the
\* other
AddRequestId(r) ==
    /\ \A q \in RequestIds : req[q].pc \in {"idle", "done"}
    /\ Arrive(r)

\* add_request_id, up to call_next, when a request may arrive while others
\* are in flight
AddRequestIdConcurrent(r) ==
    Arrive(r)

\* verify_api_key without its check for an absent header: only a header that
\* is present and wrong is rejected
verify_api_key_absent_admitted(configured_key, api_key) ==
    IF configured_key = "" THEN ""
    ELSE IF api_key = NoHeader \/ api_key = "" THEN ""
    ELSE IF api_key # configured_key THEN "invalid_api_key"
    ELSE ""

\* the decision of verify_api_key: the reason it rejects the presented
\* header for, "" when it admits the request
verify_api_key(configured_key, api_key) ==
    IF configured_key = "" THEN ""
    ELSE IF api_key = NoHeader \/ api_key = "" THEN "missing_api_key"
    ELSE IF api_key # configured_key THEN "invalid_api_key"
    ELSE ""

\* verify_api_key, the dependency of /predict: it runs before the body is
\* validated; a rejection is counted and audited before it is raised
VerifyApiKey(r) ==
    /\ req[r].pc = "gate"
    /\ LET reason == verify_api_key(API_KEY, req[r].api_key)
       IN IF reason = ""
          THEN /\ req' = [req EXCEPT ![r] = [@ EXCEPT !.pc = "body",
                                                   !.stages = Append(@, "gate")]]
               /\ UNCHANGED <<metrics, audit_log>>
          ELSE /\ metrics' = record_auth_error(metrics)
               /\ audit_log' = log_auth_failure(audit_log, ENABLE_AUDIT_LOG,
                                                req[r].request_id, reason)
               /\ req' = [req EXCEPT ![r] = [@ EXCEPT !.pc = "error",
                            !.stages = Append(@, "gate"),
                            !.exc = AuthenticationError(
                                       IF reason = "missing_api_key"
                                       THEN <<"API key is required">>
                                       ELSE <<"Invalid API key">>)]]
    /\ scraped' = NoScrape
    /\ UNCHANGED <<API_KEY, ENABLE_AUDIT_LOG, loaded, LOG_LEVEL>>

\* the request body is read and validated against PredictionRequest
ValidateBody(r) ==
    /\ req[r].pc = "body"
    /\ \E b \in Bodies :
         LET message == IF ~b.typed THEN "Input should be a valid list of numbers"
                        ELSE validate_instances(b.instances)
         IN req' = [req EXCEPT ![r] =
                IF message # ""
                THEN [@ EXCEPT !.pc = "respond", !.body = b,
                               !.stages = Append(@, "body_model"),
                               !.response = RequestValidationResponse(message)]
                ELSE [@ EXCEPT !.pc = "handler", !.body = b,
                               !.stages = Append(@, "body_model")]]
    /\ scraped' = NoScrape
    /\ UNCHANGED <<API_KEY, ENABLE_AUDIT_LOG, loaded, LOG_LEVEL, metrics, audit_log>>

\* predict, the /predict handler, with its finally block
Predict(r) ==
    /\ req[r].pc = "handler"
    /\ \E latency_ms \in Latencies :
         LET instances == req[r].body.instances
             out == ModelWrapper_predict(loaded, instances)
             success == ~raised(out.exc)
         IN /\ metrics' = record_request(metrics, latency_ms, success,
                                         IF success THEN Len(instances) ELSE 0)
            /\ audit_log' = log_prediction(audit_log, ENABLE_AUDIT_LOG,
                                req[r].request_id, Len(instances), success, "None")
            /\ req' = [req EXCEPT ![r] =
                 IF success
                 THEN [@ EXCEPT !.pc = "respond",
                                !.stages = @ \o out.stages,
                                !.response = PredictionResponse(req[r].request_id,
                                                                out.results)]
                 ELSE [@ EXCEPT !.pc = "error",
                                !.stages = @ \o out.stages,
                                !.exc = out.exc]]
    /\ scraped' = NoScrape
    /\ UNCHANGED <<API_KEY, ENABLE_AUDIT_LOG, loaded, LOG_LEVEL>>

\* inference_error_handler
InferenceErrorHandler(r) ==
    /\ req[r].pc = "error"
    /\ metrics' = IF req[r].exc.error_code = "VALIDATION_ERROR"
                  THEN record_validation_error(metrics)
                  ELSE metrics
    /\ req' = [req EXCEPT ![r] = [@ EXCEPT !.pc = "respond",
            !.response = APIError(status_code_map(req[r].exc.error_code),
                                  req[r].exc, req[r].request_id)]]
    /\ scraped' = NoScrape
    /\ UNCHANGED <<API_KEY, ENABLE_AUDIT_LOG, loaded, LOG_LEVEL, audit_log>>

\* what stays on record of a response once it is sent: the status line, the
\* X-Request-ID header, and the kind, error_code and request_id of the payload
SentResponse(response, request_id) ==
    [NoResponse EXCEPT !.status = response.status, !.kind = response.kind,
                       !.error_code = response.error_code,
                       !.request_id = response.request_id,
                       !.x_request_id = request_id]

\* add_request_id, after call_next: the header is set and the response sent;
\* the request context ends with the request
SendResponse(r) ==
    /\ req[r].pc = "respond"
    /\ req' = [req EXCEPT ![r] = [IdleRequest EXCEPT
                    !.pc = "done",
                    !.request_id = req[r].request_id,
                    !.response = SentResponse(req[r].response, req[r].request_id)]]
    /\ scraped' = NoScrape
    /\ UNCHANGED <<API_KEY, ENABLE_AUDIT_LOG, loaded, LOG_LEVEL, metrics, audit_log>>

Next ==
    \E r \in RequestIds :
        \/ AddRequestId(r)
        \/ VerifyApiKey(r)
        \/ ValidateBody(r)
        \/ Predict(r)
        \/ InferenceErrorHandler(r)
        \/ SendResponse(r)

Spec == Init /\ [][Next]_vars

\* the same handlers, with requests arriving while others are in flight
NextConcurrent ==
    \E r \in RequestIds :
        \/ AddRequestIdConcurrent(r)
        \/ VerifyApiKey(r)
        \/ ValidateBody(r)
        \/ Predict(r)
        \/ InferenceErrorHandler(r)
        \/ SendResponse(r)

SpecConcurrent == Init /\ [][NextConcurrent]_vars

(* ------------------------------ GET /metrics --------------------------- *)

\* a /metrics handler that counts the call it serves as a request
PrometheusMetrics_counts_itself ==
    /\ Len(scraped) < MaxScrapes
    /\ metrics' = [metrics EXCEPT !.request_count = @ + 1]
    /\ scraped' = Append(scraped, to_prometheus(metrics))
    /\ UNCHANGED <<API_KEY, ENABLE_AUDIT_LOG, loaded, LOG_LEVEL, audit_log, req>>

\* prometheus_metrics: the endpoint has no dependency and no body; it
\* returns metrics.to_prometheus()
PrometheusMetrics ==
    /\ Len(scraped) < MaxScrapes
    /\ scraped' = Append(scraped, to_prometheus(metrics))
    /\ UNCHANGED <<API_KEY, ENABLE_AUDIT_LOG, loaded, LOG_LEVEL, metrics,
                   audit_log, req>>

\* POST /predict and GET /metrics, served one after the other
NextScrape ==
    \/ Next
    \/ PrometheusMetrics

SpecScrape == Init /\ [][NextScrape]_vars

(* ----------------------- audit emission failures ---------------------- *)

\* str(e) of the exception an audit emission that fails raises
AuditEmitError == "audit emission failed"

InitAuditFault ==
    /\ API_KEY \in {"", Secret}
    /\ ENABLE_AUDIT_LOG \in BOOLEAN
    /\ loaded \in BOOLEAN
    /\ LOG_LEVEL \in {"INFO", "DEBUG"}
    /\ metrics = Metrics_init
    /\ audit_log = [r \in RequestIds |-> <<>>]
    /\ req = [r \in RequestIds |-> IdleRequest]
    /\ scraped = NoScrape

\* verify_api_key when AuditLog.log_auth_failure raises: the rejection is
\* already counted, no record is written, and the exception leaves the
\* dependency in place of AuthenticationError
VerifyApiKeyAuditFails(r) ==
    /\ req[r].pc = "gate"
    /\ ENABLE_AUDIT_LOG
    /\ verify_api_key(API_KEY, req[r].api_key) # ""
    /\ metrics' = record_auth_error(metrics)
    /\ req' = [req EXCEPT ![r] = [@ EXCEPT !.pc = "unhandled",
                    !.stages = Append(@, "gate"),
                    !.exc = UnexpectedException(AuditEmitError)]]
    /\ scraped' = NoScrape
    /\ UNCHANGED <<API_KEY, ENABLE_AUDIT_LOG, loaded, LOG_LEVEL, audit_log>>

\* predict when AuditLog.log_prediction raises in the finally block: the
\* request is already recorded, no record is written, and the exception
\* replaces the return value or the InferenceError in flight
PredictAuditFails(r) ==
    /\ req[r].pc = "handler"
    /\ ENABLE_AUDIT_LOG
    /\ \E latency_ms \in Latencies :
         LET instances == req[r].body.instances
             out == ModelWrapper_predict(loaded, instances)
             success == ~raised(out.exc)
         IN /\ metrics' = record_request(metrics, latency_ms, success,
                                         IF success THEN Len(instances) ELSE 0)
            /\ req' = [req EXCEPT ![r] = [@ EXCEPT !.pc = "unhandled",
                            !.stages = @ \o out.stages,
                            !.exc = UnexpectedException(AuditEmitError)]]
    /\ scraped' = NoScrape
    /\ UNCHANGED <<API_KEY, ENABLE_AUDIT_LOG, loaded, LOG_LEVEL, audit_log>>

\* the payload global_exception_handler builds
InternalErrorResponse(exc, request_id, log_level) ==
    [status |-> 500, kind |-> "APIError", error_code |-> "INTERNAL_ERROR",
     message |-> <<"An unexpected error occurred">>,
     details |-> IF log_level = "DEBUG" THEN [exception |-> exc.cause] ELSE <<>>,
     request_id |-> request_id, predictions |-> <<>>, x_request_id |-> 0]

\* global_exception_handler
GlobalExceptionHandler(r) ==
    /\ req[r].pc = "unhandled"
    /\ metrics' = [metrics EXCEPT !.error_count = @ + 1]
    /\ req' = [req EXCEPT ![r] = [@ EXCEPT !.pc = "respond_unhandled",
            !.response = InternalErrorResponse(req[r].exc, req[r].request_id,
                                               LOG_LEVEL)]]
    /\ scraped' = NoScrape
    /\ UNCHANGED <<API_KEY, ENABLE_AUDIT_LOG, loaded, LOG_LEVEL, audit_log>>

\* the answer of global_exception_handler is sent by the server's error
\* layer, outside add_request_id: call_next has raised, so the line that sets
\* X-Request-ID never runs
SendUnhandledResponse(r) ==
    /\ req[r].pc = "respond_unhandled"
    /\ req' = [req EXCEPT ![r] = [IdleRequest EXCEPT
                    !.pc = "done",
                    !.request_id = req[r].request_id,
                    !.response = [SentResponse(req[r].response, 0) EXCEPT
                                    !.x_request_id = 0]]]
    /\ scraped' = NoScrape
    /\ UNCHANGED <<API_KEY, ENABLE_AUDIT_LOG, loaded, LOG_LEVEL, metrics, audit_log>>

\* the handlers, with audit emissions that may fail
NextAuditFault ==
    \E r \in RequestIds :
        \/ AddRequestId(r)
        \/ VerifyApiKey(r)
        \/ VerifyApiKeyAuditFails(r)
        \/ ValidateBody(r)
        \/ Predict(r)
        \/ PredictAuditFails(r)
        \/ InferenceErrorHandler(r)
        \/ GlobalExceptionHandler(r)
        \/ SendResponse(r)
        \/ SendUnhandledResponse(r)

SpecAuditFault == InitAuditFault /\ [][NextAuditFault]_vars

(* =============================== claims ================================ *)

\* requests that have been answered
Completed == {r \in RequestIds : req[r].pc = "done"}

\* answered requests whose answer is an error
Failed == {r \in Completed : req[r].response.status >= 400}

\* no request is in flight
Quiescent == \A r \in RequestIds : req[r].pc \in {"idle", "done"}

\* the sum of f over the finite set S
RECURSIVE SumOver(_, _)
SumOver(f, S) ==
    IF S = {} THEN 0
    ELSE LET x == CHOOSE x \in S : TRUE IN f[x] + SumOver(f, S \ {x})

\* the request was rejected by the auth gate
AuthRejected(r) ==
    \/ req[r].exc.type = "AuthenticationError"
    \/ req[r].response.error_code = "AUTHENTICATION_ERROR"

\* the batch of request r is one the validator accepts: non-empty, within
\* the batch limit, every instance within the feature limit and finite
AcceptableBatch(r) ==
    LET v == req[r].body.instances
    IN /\ req[r].body.typed
       /\ Len(v) >= 1
       /\ Len(v) <= MAX_BATCH_SIZE
       /\ \A i \in 1..Len(v) :
            /\ Len(v[i]) <= MAX_FEATURES
            /\ \A j \in 1..Len(v[i]) : isfinite(v[i][j])

\* C1: in every reachable state request_count = prediction_count + error_count
C1_RequestCountBalance ==
    metrics.request_count = metrics.prediction_count + metrics.error_count

\* C2: every failed request adds exactly 1 to error_count, so once no request
\* is in flight error_count is the number of failed requests
C2_ErrorCountIsFailedRequests ==
    Quiescent => metrics.error_count = Cardinality(Failed)

\* C3: with audit logging enabled every failed request has produced exactly
\* one audit record for its request_id
C3_OneAuditRecordPerFailure ==
    ENABLE_AUDIT_LOG =>
        \A r \in Failed : Len(audit_log[req[r].request_id]) = 1

\* C4: once all in-flight requests have completed, request_count is the
\* number of completed requests, whatever the interleaving
C4_RequestCountIsCompleted ==
    Quiescent => metrics.request_count = Cardinality(Completed)

\* C5: the six bucket counts sum to request_count, in the Metrics object and
\* in the values /metrics renders
C5_BucketsSumToRequestCount ==
    /\ SumOver(metrics.latency_histogram, Buckets) = metrics.request_count
    /\ LET out == to_prometheus(metrics)
       IN SumOver(out.inference_latency_bucket,
                  DOMAIN out.inference_latency_bucket)
            = out.inference_requests_total

\* C5 witness: requests have been recorded in different buckets, the
\* overflow bucket among them
C5_Witness ==
    /\ metrics.request_count = 2
    /\ metrics.latency_histogram["le_inf"] = 1
    /\ metrics.latency_histogram["le_100ms"] = 1

\* C6: the step that answers a request whose batch is empty answers 422 with
\* an APIError carrying VALIDATION_ERROR and adds 1 to validation_error_count
C6_EmptyBatchIsValidationError ==
    [][\A r \in RequestIds :
        (/\ req[r].pc # "respond"
         /\ req'[r].pc = "respond"
         /\ req'[r].body.typed
         /\ req'[r].body.instances = <<>>)
        => /\ req'[r].response.status = 422
           /\ req'[r].response.kind = "APIError"
           /\ req'[r].response.error_code = "VALIDATION_ERROR"
           /\ metrics'.validation_error_count
                = metrics.validation_error_count + 1]_vars

\* C7: the answer to a batch of max_batch_size + 1 instances is 422 with
\* details.max_batch_size = max_batch_size and details.actual = max_batch_size + 1
C7_OversizeBatchDetails ==
    \A r \in RequestIds :
        (/\ req[r].pc = "respond"
         /\ req[r].body.typed
         /\ Len(req[r].body.instances) = MAX_BATCH_SIZE + 1)
        => /\ req[r].response.status = 422
           /\ {"max_batch_size", "actual"} \subseteq DOMAIN req[r].response.details
           /\ req[r].response.details.max_batch_size = MAX_BATCH_SIZE
           /\ req[r].response.details.actual = MAX_BATCH_SIZE + 1

\* C8: with the backend loaded, an admitted request whose batch the validator
\* accepts (instances of different lengths included) is answered 200 with
\* one prediction per instance
C8_ValidBatchGetsPredictions ==
    \A r \in RequestIds :
        (/\ req[r].pc = "respond"
         /\ loaded
         /\ ~AuthRejected(r)
         /\ AcceptableBatch(r))
        => /\ req[r].response.status = 200
           /\ Len(req[r].response.predictions) = Len(req[r].body.instances)

\* the gate has decided on request r and its context is still there
PastGate(r) == req[r].pc \in {"body", "handler", "error", "respond"}

PipelineOrder == <<"gate", "body_model", "validate_input", "model">>

\* s is an initial segment of t
IsPrefix(s, t) ==
    /\ Len(s) <= Len(t)
    /\ \A i \in 1..Len(s) : s[i] = t[i]

\* the stages request r has been passed to
StagesOf(r) == {req[r].stages[i] : i \in 1..Len(req[r].stages)}

\* request r failed validation: in the request-body model or in validate_input
ValidationFailed(r) ==
    \/ req[r].exc.type = "ValidationError"
    \/ req[r].response.kind = "RequestValidationError"

\* C10: the stages run in the order gate, body model, validate_input, model;
\* a request the gate rejects is passed to no validation step, and a request
\* that fails validation never reaches the model invocation
C10_StagesShortCircuit ==
    \A r \in RequestIds :
        /\ IsPrefix(req[r].stages, PipelineOrder)
        /\ req[r].exc.type = "AuthenticationError"
            => StagesOf(r) \cap {"body_model", "validate_input", "model"} = {}
        /\ (ValidationFailed(r) /\ req[r].pc # "done")
            => /\ "model" \notin StagesOf(r)
               /\ "gate" \in StagesOf(r)

\* C10 witness: a request admitted by the gate and accepted by the body
\* model was rejected by validate_input and answered without the model having
\* run
C10_Witness ==
    \E r \in RequestIds :
        /\ req[r].pc = "respond"
        /\ req[r].exc.type = "ValidationError"
        /\ req[r].response.status = 422
        /\ req[r].stages = <<"gate", "body_model", "validate_input">>

\* C11: a request has its request_id before the gate or any validation runs,
\* and the response sent for it carries that id in the X-Request-ID header
\* and in the request_id field of its payload
C11_RequestIdEverywhere ==
    \A r \in RequestIds :
        /\ req[r].pc = "gate" => (req[r].request_id = r /\ req[r].stages = <<>>)
        /\ req[r].pc = "done"
            => /\ req[r].response.x_request_id = req[r].request_id
               /\ req[r].response.request_id = req[r].request_id

\* the parts a message is formatted from
PartsOf(message) == {message[i] : i \in 1..Len(message)}

\* C12: a failure caused by an unexpected exception (one that is no
\* InferenceError) is answered as INTERNAL_ERROR: 500, a message that does
\* not contain the exception text, details only when LOG_LEVEL is DEBUG
C12_UnexpectedIsInternalError ==
    \A r \in RequestIds :
        (req[r].pc = "respond" /\ req[r].exc.cause # "")
        => /\ req[r].response.status = 500
           /\ req[r].response.error_code = "INTERNAL_ERROR"
           /\ req[r].exc.cause \notin PartsOf(req[r].response.message)
           /\ (DOMAIN req[r].response.details # {}) => LOG_LEVEL = "DEBUG"

\* the audit emission of request r failed
AuditFailed(r) == req[r].exc.cause = AuditEmitError

\* the status and error_code request r is answered with when its audit
\* emission succeeds
OutcomeWithAudit(r) ==
    IF verify_api_key(API_KEY, req[r].api_key) # ""
    THEN [status |-> 401, error_code |-> "AUTHENTICATION_ERROR"]
    ELSE LET out == ModelWrapper_predict(loaded, req[r].body.instances)
         IN IF raised(out.exc)
            THEN [status |-> status_code_map(out.exc.error_code),
                  error_code |-> out.exc.error_code]
            ELSE [status |-> 200, error_code |-> ""]

\* C13: a request whose audit emission failed is answered with the status
\* and payload it gets when the emission succeeds, and the failure never
\* leaves the handler that emitted
C13_AuditFailureIsInvisible ==
    \A r \in RequestIds :
        AuditFailed(r)
        => /\ req[r].pc \notin {"unhandled", "respond_unhandled"}
           /\ req[r].pc = "respond"
                => /\ req[r].response.status = OutcomeWithAudit(r).status
                   /\ req[r].response.error_code = OutcomeWithAudit(r).error_code

\* C14: a GET /metrics step leaves the Metrics object (every counter, the
\* latency sum, every bucket) unchanged, and every text sent since the last
\* request step is the rendering of the same counters, so consecutive calls
\* return identical text
C14_RenderIsReadOnly ==
    [][Len(scraped') > Len(scraped)
        => /\ metrics' = metrics
           /\ \A i \in DOMAIN scraped' : scraped'[i] = to_prometheus(metrics')]_vars

\* two consecutive /metrics calls after requests that were counted and timed
C14_Witness ==
    /\ Len(scraped) = 2
    /\ metrics.request_count > 0
    /\ metrics.auth_error_count > 0
    /\ scraped[2].inference_latency_seconds > 0

\* the canonical table of transport statuses, by failure kind
CanonicalStatus(kind) ==
    CASE kind \in {"ModelNotLoadedError", "ModelLoadError"} -> 503
      [] kind = "ValidationError" -> 422
      [] kind = "PredictionError" -> 500
      [] kind = "AuthenticationError" -> 401
      [] kind = "RateLimitError" -> 429
      [] OTHER -> 500

\* the kind of the failure request r is answered for: the exception raised,
\* or the body model's rejection, which is a validation failure
FailureKind(r) ==
    IF raised(req[r].exc) THEN req[r].exc.type ELSE "ValidationError"

\* C15: the status of every error response is the canonical one of its
\* failure kind (503 model not loaded or load error, 422 validation, 500
\* prediction, 401 authentication, 429 rate limit, 500 anything else), and
\* the mapping is defined for every kind and every error code
C15_StatusMatchesCanonicalTable ==
    /\ \A kind \in ExceptionKinds :
            status_of_kind(kind) = CanonicalStatus(kind)
    /\ status_code_map("SOME_OTHER_CODE") = 500
    /\ \A r \in RequestIds :
            (req[r].pc \in {"respond", "respond_unhandled"}
                /\ req[r].response.status # 200)
            => req[r].response.status = CanonicalStatus(FailureKind(r))

\* a request is answered 503 for a model that is not loaded while another
\* was answered 401
C15_Witness ==
    \E r, q \in RequestIds :
        /\ req[r].pc = "respond"
        /\ req[r].response.status = 503
        /\ req[r].exc.type = "ModelNotLoadedError"
        /\ req[q].pc = "done"
        /\ req[q].response.status = 401

\* the bound of a rendered bucket in milliseconds; +Inf lies above every
\* latency
BoundOf(le) ==
    CASE le = "0.01" -> 10
      [] le = "0.05" -> 50
      [] le = "0.1" -> 100
      [] le = "0.5" -> 500
      [] le = "1.0" -> 1000
      [] le = "+Inf" -> 1002

\* C16: the rendered inference_latency_bucket series is cumulative: its
\* values are non-decreasing in le and the +Inf value equals
\* inference_requests_total
C16_BucketsAreCumulative ==
    LET out == to_prometheus(metrics)
    IN /\ \A a, b \in BucketLabels :
            BoundOf(a) <= BoundOf(b)
            => out.inference_latency_bucket[a] <= out.inference_latency_bucket[b]
       /\ out.inference_latency_bucket["+Inf"] = out.inference_requests_total

\* request r is answered 200 by the step
SucceedsNow(r) ==
    /\ req[r].pc = "handler"
    /\ req'[r].pc = "respond"
    /\ req'[r].response.status = 200

====
